---- MODULE Spec2Model ----
(***************************************************************************)
(* A model of tricks.py: the playlist tools built on the Spotify client.   *)
(*                                                                         *)
(*   get_all_track_uris   walks the pages of a playlist (tricks.py 16-44)  *)
(*   merge_playlists      interleaves two playlists    (tricks.py 47-98)   *)
(*   print_titles         prints "<name> - <artist>"   (tricks.py 101-123) *)
(*   main                 the command line             (tricks.py 177-195) *)
(*                                                                         *)
(* The program is single-threaded; pc is the position of the one thread.   *)
(* One action is one step of the code between two calls of the client sp   *)
(* or two loop iterations.  The client sp is the environment: a call       *)
(* either returns what the service holds or raises, and an exception is    *)
(* caught nowhere in tricks.py, so it ends the run (pc = "raised").        *)
(*                                                                         *)
(* Python's None is the empty tuple and a present value v is <<v>>.        *)
(***************************************************************************)
EXTENDS Integers, Sequences, FiniteSets, TLC

VARIABLES
    remote,        \* the service: playlist id -> sequence of pages of items
    account,       \* the service: the id of the authenticated user
    created,       \* the service: playlists made by user_playlist_create
    calls,         \* every call made on sp so far, in order
    stdout,        \* the lines printed so far
    pc,            \* the position of the program
    err,           \* the exception that ended the run, or None
    ret,           \* the value returned to the caller of the entry function
    entry,         \* the function the run entered by
    args,          \* main: the parsed command line
    today,         \* main: datetime.datetime.now()
    playlist_id,   \* get_all_track_uris, print_titles: the parameter
    limit,         \* get_all_track_uris: the parameter (None or an int)
    uris,          \* get_all_track_uris: the local list
    results,       \* get_all_track_uris, print_titles: the current page
    idx,           \* the position of "for item in results['items']"
    caller,        \* get_all_track_uris: where its result goes
    src1_id, src2_id, new_name, per_src_limit,   \* merge_playlists: parameters
    user_id, tracks1, tracks2, merged, new_pl,   \* merge_playlists: locals
    i,             \* merge_playlists: the batch loop's variable
    artist_name    \* print_titles: the local, None while unbound

svc     == <<remote, account, created, calls>>
ga_vars == <<playlist_id, limit, uris, results, idx, caller>>
mp_args == <<src1_id, src2_id, new_name, per_src_limit>>
mp_vars == <<user_id, tracks1, tracks2, merged, new_pl, i>>
cli     == <<entry, args, today>>
vars    == <<svc, stdout, pc, err, ret, cli, ga_vars, mp_args, mp_vars, artist_name>>

None    == <<>>
Some(v) == <<v>>

Min(a, b) == IF a <= b THEN a ELSE b
Max(a, b) == IF a >= b THEN a ELSE b

(***************************************************************************)
(* Bounds of the model.                                                    *)
(***************************************************************************)
MaxSlots == 3      \* items of an enumerated playlist
MaxPages == 3      \* pages an enumerated playlist is split into
MaxLimit == 3      \* the largest limit tried on an enumerated playlist

(***************************************************************************)
(* The service.  An item is [track |-> None] (a removed track) or          *)
(* [track |-> Some(t)], t = [uri, name, artists]; artists is the list of   *)
(* artist names.  A playlist is a non-empty sequence of pages; page k has  *)
(* a continuation cursor iff it is not the last.                           *)
(***************************************************************************)
Track(u, n, a) == [uri |-> u, name |-> n, artists |-> a]
Item(t)        == [track |-> t]

SeqsUpTo(S, n) == UNION {[1..m -> S] : m \in 0..n}

\* Every way to cut the items s into at least one and at most p pages
\* (a page may be empty).
RECURSIVE Splits(_, _)
Splits(s, p) ==
    IF p <= 1 THEN {<<s>>}
    ELSE {<<s>>} \cup
         UNION {{<<SubSeq(s, 1, k)>> \o r : r \in Splits(SubSeq(s, k + 1, Len(s)), p - 1)}
                : k \in 0..Len(s)}

PlaylistsOver(kinds) == UNION {Splits(s, MaxPages) : s \in SeqsUpTo(kinds, MaxSlots)}

Flatten(pages) ==
    LET RECURSIVE F(_)
        F(k) == IF k > Len(pages) THEN <<>> ELSE pages[k] \o F(k + 1)
    IN F(1)

\* The page of a response: the items and the "next" cursor.
Page(id, k) ==
    [items |-> remote[id][k],
     next  |-> IF k < Len(remote[id]) THEN Some([id |-> id, page |-> k + 1]) ELSE None]

(***************************************************************************)
(* Calls on sp.  PendingCall is the call the program makes in its next     *)
(* step, None when the next step makes none.                               *)
(***************************************************************************)
Call(op, arg) == [op |-> op, arg |-> arg, ok |-> TRUE]

LimitReached == limit # None /\ Len(uris) >= limit[1]

\* line 93: merged[i : i + 100]
BatchSize == 100
\* the slice one short: merged[i : i + 99]
Batch_short(m, k) == SubSeq(m, k + 1, Min(k + BatchSize - 1, Len(m)))
Batch(m, k) == SubSeq(m, k + 1, Min(k + BatchSize, Len(m)))

PendingCall ==
    CASE pc = "ga_fetch" -> Some(Call("playlist_tracks", <<playlist_id>>))
      [] pc = "ga_after" /\ ~LimitReached /\ results[1].next # None
                         -> Some(Call("next", results[1].next))
      [] pc = "mp_user"  -> Some(Call("current_user", <<>>))
      [] pc = "mp_create"
                         -> Some(Call("user_playlist_create", <<user_id, new_name, FALSE>>))
      [] pc = "mp_batch" /\ i < Len(merged)
                         -> Some(Call("playlist_add_items", <<new_pl.id, Batch(merged, i)>>))
      [] pc = "pt_fetch" -> Some(Call("playlist_tracks", <<playlist_id>>))
      [] pc = "pt_after" /\ results[1].next # None
                         -> Some(Call("next", results[1].next))
      [] OTHER -> None

Logged == Append(calls, PendingCall[1])

\* a failed batch swallowed: the loop goes on with the next batch
sp_raises_swallowed ==
    /\ PendingCall # None
    /\ calls' = Append(calls, [PendingCall[1] EXCEPT !.ok = FALSE])
    /\ IF pc = "mp_batch"
       THEN i' = i + 100 /\ UNCHANGED <<pc, err>>
       ELSE pc' = "raised" /\ err' = Some("SpotifyException") /\ i' = i
    /\ UNCHANGED <<remote, account, created, stdout, ret, cli, ga_vars, mp_args,
                   user_id, tracks1, tracks2, merged, new_pl, artist_name>>

\* Any call on sp may raise; nothing in tricks.py catches it.
sp_raises ==
    /\ PendingCall # None
    /\ calls' = Append(calls, [PendingCall[1] EXCEPT !.ok = FALSE])
    /\ pc' = "raised"
    /\ err' = Some("SpotifyException")
    /\ UNCHANGED <<remote, account, created, stdout, ret, cli, ga_vars, mp_args, mp_vars, artist_name>>

(***************************************************************************)
(* get_all_track_uris (tricks.py 16-44)                                    *)
(***************************************************************************)
\* lines 22-26: uris = [], results = sp.playlist_tracks(playlist_id, fields=...)
get_all_track_uris_fetch ==
    /\ pc = "ga_fetch"
    /\ uris' = <<>>
    /\ results' = Some(Page(playlist_id, 1))
    /\ calls' = Logged
    /\ pc' = "ga_while"
    /\ UNCHANGED <<remote, account, created, stdout, err, ret, cli, playlist_id, limit, idx, caller,
                   mp_args, mp_vars, artist_name>>

\* line 28: while results and (limit is None or len(uris) < limit)
get_all_track_uris_while ==
    /\ pc = "ga_while"
    /\ IF results # None /\ (limit = None \/ Len(uris) < limit[1])
       THEN pc' = "ga_for" /\ idx' = 1
       ELSE pc' = "ga_return" /\ idx' = idx
    /\ UNCHANGED <<svc, stdout, err, ret, cli, playlist_id, limit, uris, results, caller,
                   mp_args, mp_vars, artist_name>>

\* get_all_track_uris_for without the break of lines 33-34
get_all_track_uris_for_nobreak ==
    /\ pc = "ga_for"
    /\ IF idx > Len(results[1].items)
       THEN /\ pc' = "ga_after"
            /\ UNCHANGED <<uris, idx>>
       ELSE LET track == results[1].items[idx].track IN
            /\ uris' = IF track # None THEN Append(uris, track[1].uri) ELSE uris
            /\ pc' = "ga_for"
            /\ idx' = idx + 1
    /\ UNCHANGED <<svc, stdout, err, ret, cli, playlist_id, limit, results, caller,
                   mp_args, mp_vars, artist_name>>

\* lines 29-34: one iteration of the for loop, or its end
get_all_track_uris_for ==
    /\ pc = "ga_for"
    /\ IF idx > Len(results[1].items)
       THEN /\ pc' = "ga_after"
            /\ UNCHANGED <<uris, idx>>
       ELSE LET track == results[1].items[idx].track IN
            IF track # None
            THEN /\ uris' = Append(uris, track[1].uri)
                 /\ IF limit # None /\ Len(uris') >= limit[1]
                    THEN pc' = "ga_after" /\ idx' = idx
                    ELSE pc' = "ga_for" /\ idx' = idx + 1
            ELSE /\ uris' = uris
                 /\ pc' = "ga_for"
                 /\ idx' = idx + 1
    /\ UNCHANGED <<svc, stdout, err, ret, cli, playlist_id, limit, results, caller,
                   mp_args, mp_vars, artist_name>>

\* get_all_track_uris_after without the break of lines 36-37
get_all_track_uris_after_nobreak ==
    /\ pc = "ga_after"
    /\ IF results[1].next # None
       THEN /\ results' = Some(Page(results[1].next[1].id, results[1].next[1].page))
            /\ calls' = Append(calls, Call("next", results[1].next))
            /\ pc' = "ga_while"
       ELSE /\ results' = None
            /\ calls' = calls
            /\ pc' = "ga_while"
    /\ UNCHANGED <<remote, account, created, stdout, err, ret, cli, playlist_id, limit, uris,
                   idx, caller, mp_args, mp_vars, artist_name>>

\* lines 36-42: break at the limit, else the next page or results = None
get_all_track_uris_after ==
    /\ pc = "ga_after"
    /\ IF LimitReached
       THEN pc' = "ga_return" /\ UNCHANGED <<results, calls>>
       ELSE IF results[1].next # None
            THEN /\ results' = Some(Page(results[1].next[1].id, results[1].next[1].page))
                 /\ calls' = Logged
                 /\ pc' = "ga_while"
            ELSE /\ results' = None
                 /\ calls' = calls
                 /\ pc' = "ga_while"
    /\ UNCHANGED <<remote, account, created, stdout, err, ret, cli, playlist_id, limit, uris, idx, caller,
                   mp_args, mp_vars, artist_name>>

\* line 44: return uris, to the caller of the function
get_all_track_uris_return ==
    /\ pc = "ga_return"
    /\ caller = "top"
    /\ ret' = Some(uris)
    /\ pc' = "done"
    /\ UNCHANGED <<svc, stdout, err, cli, ga_vars, mp_args, mp_vars, artist_name>>

(***************************************************************************)
(* Strings are sequences of fragments, "" the empty one; a number is       *)
(* formatted digit by digit.                                               *)
(***************************************************************************)
Str(s) == IF s = "" THEN <<>> ELSE <<s>>

Digit(d) == <<"0", "1", "2", "3", "4", "5", "6", "7", "8", "9">>[d + 1]

\* str(n), n >= 0
RECURSIVE Dec(_)
Dec(n) == IF n < 10 THEN <<Digit(n)>> ELSE Append(Dec(n \div 10), Digit(n % 10))

\* n in at least w digits, padded with zeros (strftime's %Y, %m, %d)
RECURSIVE Pad(_, _)
Pad(n, w) == IF Len(Dec(n)) >= w THEN Dec(n) ELSE <<"0">> \o Pad(n, w - 1)

\* line 185: strftime('%Y-%m-%d')
strftime(d) == Pad(d.year, 4) \o <<"-">> \o Pad(d.month, 2) \o <<"-">> \o Pad(d.day, 2)

(***************************************************************************)
(* merge_playlists (tricks.py 47-98)                                       *)
(***************************************************************************)
\* the loop with the commented-out line 82: playlist 2 in reverse order
Interleave_reverse(t1, t2) ==
    LET max_len == Max(Len(t1), Len(t2))
        RECURSIVE Loop(_, _)
        Loop(k, acc) ==
            IF k >= max_len THEN acc
            ELSE LET a1 == IF k < Len(t1) THEN Append(acc, t1[k + 1]) ELSE acc
                     a2 == IF k < Len(t2) THEN Append(a1, t2[Len(t2) - k]) ELSE a1
                 IN Loop(k + 1, a2)
    IN Loop(0, <<>>)

\* lines 74-83: the interleaving loop
Interleave(t1, t2) ==
    LET max_len == Max(Len(t1), Len(t2))
        RECURSIVE Loop(_, _)
        Loop(k, acc) ==
            IF k >= max_len THEN acc
            ELSE LET a1 == IF k < Len(t1) THEN Append(acc, t1[k + 1]) ELSE acc
                     a2 == IF k < Len(t2) THEN Append(a1, t2[k + 1]) ELSE a1
                 IN Loop(k + 1, a2)
    IN Loop(0, <<>>)

\* lines 62-66: user_id = sp.current_user()["id"], then the call for tracks1
merge_playlists_user ==
    /\ pc = "mp_user"
    /\ user_id' = account
    /\ calls' = Logged
    /\ playlist_id' = src1_id /\ limit' = Some(per_src_limit) /\ caller' = "tracks1"
    /\ pc' = "ga_fetch"
    /\ UNCHANGED <<remote, account, created, stdout, err, ret, cli, uris, results, idx,
                   mp_args, tracks1, tracks2, merged, new_pl, i, artist_name>>

\* merge_playlists_tracks1 reading playlist 1 a second time
merge_playlists_tracks1_again ==
    /\ pc = "ga_return" /\ caller = "tracks1"
    /\ tracks1' = uris
    /\ playlist_id' = src1_id /\ limit' = Some(per_src_limit) /\ caller' = "tracks2"
    /\ pc' = "ga_fetch"
    /\ UNCHANGED <<svc, stdout, err, ret, cli, uris, results, idx,
                   mp_args, user_id, tracks2, merged, new_pl, i, artist_name>>

\* lines 66-69: tracks1 = the result, then the call for tracks2
merge_playlists_tracks1 ==
    /\ pc = "ga_return" /\ caller = "tracks1"
    /\ tracks1' = uris
    /\ playlist_id' = src2_id /\ limit' = Some(per_src_limit) /\ caller' = "tracks2"
    /\ pc' = "ga_fetch"
    /\ UNCHANGED <<svc, stdout, err, ret, cli, uris, results, idx,
                   mp_args, user_id, tracks2, merged, new_pl, i, artist_name>>

\* lines 69-83: tracks2 = the result, then merged is built
merge_playlists_tracks2 ==
    /\ pc = "ga_return" /\ caller = "tracks2"
    /\ tracks2' = uris
    /\ merged' = Interleave(tracks1, tracks2')
    /\ pc' = "mp_create"
    /\ UNCHANGED <<svc, stdout, err, ret, cli, ga_vars,
                   mp_args, user_id, tracks1, new_pl, i, artist_name>>

\* line 89: new_pl = sp.user_playlist_create(user_id, new_name, public=False)
NewId == "new"
merge_playlists_create ==
    /\ pc = "mp_create"
    /\ new_pl' = [id |-> NewId]
    /\ created' = Append(created, [id |-> NewId, owner |-> user_id, name |-> new_name,
                                   public |-> FALSE, items |-> <<>>])
    /\ calls' = Logged
    /\ i' = 0
    /\ pc' = "mp_batch"
    /\ UNCHANGED <<remote, account, stdout, err, ret, cli, ga_vars,
                   mp_args, user_id, tracks1, tracks2, merged, artist_name>>

\* what the service holds after playlist_add_items(id, batch)
AddItems(pls, id, batch) ==
    [k \in 1..Len(pls) |->
        IF pls[k].id = id THEN [pls[k] EXCEPT !.items = @ \o batch] ELSE pls[k]]

\* lines 92-94: one iteration of the batch loop, or its end
merge_playlists_batch ==
    /\ pc = "mp_batch"
    /\ IF i < Len(merged)
       THEN /\ created' = AddItems(created, new_pl.id, Batch(merged, i))
            /\ calls' = Logged
            /\ i' = i + BatchSize
            /\ pc' = "mp_batch"
       ELSE /\ pc' = "mp_print"
            /\ UNCHANGED <<created, calls, i>>
    /\ UNCHANGED <<remote, account, stdout, err, ret, cli, ga_vars,
                   mp_args, user_id, tracks1, tracks2, merged, new_pl, artist_name>>

\* line 97: the summary line; the function then returns None
Summary(name, n) ==
    <<"created playlist '">> \o name \o <<"' with ">> \o Dec(n) \o <<" tracks.">>

\* merge_playlists_print returning the pair instead of None
merge_playlists_print_pair ==
    /\ pc = "mp_print"
    /\ stdout' = Append(stdout, Summary(new_name, Len(merged)))
    /\ ret' = Some(<<new_pl.id, Len(merged)>>)
    /\ pc' = "done"
    /\ UNCHANGED <<svc, err, cli, ga_vars, mp_args, mp_vars, artist_name>>

merge_playlists_print ==
    /\ pc = "mp_print"
    /\ stdout' = Append(stdout, Summary(new_name, Len(merged)))
    /\ ret' = Some(None)
    /\ pc' = "done"
    /\ UNCHANGED <<svc, err, cli, ga_vars, mp_args, mp_vars, artist_name>>

(***************************************************************************)
(* print_titles (tricks.py 101-123)                                        *)
(***************************************************************************)
\* lines 102-107: results = sp.playlist_tracks(playlist_id, fields=...)
print_titles_fetch ==
    /\ pc = "pt_fetch"
    /\ results' = Some(Page(playlist_id, 1))
    /\ calls' = Logged
    /\ idx' = 1
    /\ pc' = "pt_for"
    /\ UNCHANGED <<remote, account, created, stdout, err, ret, cli, playlist_id, limit, uris,
                   caller, mp_args, mp_vars, artist_name>>

\* line 118: f"{name} - {artist_name}"
Line(name, artist) == Str(name) \o <<" - ">> \o Str(artist)

\* print_titles_for with a placeholder for a track without artists
print_titles_for_placeholder ==
    /\ pc = "pt_for"
    /\ IF idx > Len(results[1].items)
       THEN /\ pc' = "pt_after"
            /\ UNCHANGED <<idx, artist_name, stdout>>
       ELSE LET track == results[1].items[idx].track IN
            IF track = None
            THEN /\ idx' = idx + 1
                 /\ pc' = "pt_for"
                 /\ UNCHANGED <<artist_name, stdout>>
            ELSE LET artists == track[1].artists IN
                 /\ artist_name' = IF artists # <<>> THEN Some(artists[1])
                                                     ELSE Some("Unknown Artist")
                 /\ stdout' = Append(stdout, Line(track[1].name, artist_name'[1]))
                 /\ idx' = idx + 1
                 /\ pc' = "pt_for"
    /\ UNCHANGED <<svc, err, ret, cli, playlist_id, limit, uris, results, caller,
                   mp_args, mp_vars>>

\* lines 108-118: one iteration of the for loop, or its end.  artist_name is
\* assigned only when the track lists an artist, and reading it while it is
\* unbound raises UnboundLocalError.
print_titles_for ==
    /\ pc = "pt_for"
    /\ IF idx > Len(results[1].items)
       THEN /\ pc' = "pt_after"
            /\ UNCHANGED <<idx, artist_name, stdout, err>>
       ELSE LET track == results[1].items[idx].track IN
            IF track = None
            THEN /\ idx' = idx + 1
                 /\ pc' = "pt_for"
                 /\ UNCHANGED <<artist_name, stdout, err>>
            ELSE LET artists == track[1].artists IN
                 /\ artist_name' = IF artists # <<>> THEN Some(artists[1]) ELSE artist_name
                 /\ IF artist_name' = None
                    THEN /\ pc' = "raised"
                         /\ err' = Some("UnboundLocalError")
                         /\ UNCHANGED <<idx, stdout>>
                    ELSE /\ stdout' = Append(stdout, Line(track[1].name, artist_name'[1]))
                         /\ idx' = idx + 1
                         /\ pc' = "pt_for"
                         /\ err' = err
    /\ UNCHANGED <<svc, ret, cli, playlist_id, limit, uris, results, caller,
                   mp_args, mp_vars>>

\* lines 120-123: the next page, or the end of the loop and of the function
print_titles_after ==
    /\ pc = "pt_after"
    /\ IF results[1].next # None
       THEN /\ results' = Some(Page(results[1].next[1].id, results[1].next[1].page))
            /\ calls' = Logged
            /\ idx' = 1
            /\ pc' = "pt_for"
            /\ ret' = ret
       ELSE /\ pc' = "done"
            /\ ret' = Some(None)
            /\ UNCHANGED <<results, calls, idx>>
    /\ UNCHANGED <<remote, account, created, stdout, err, cli, playlist_id, limit, uris,
                   caller, mp_args, mp_vars, artist_name>>

(***************************************************************************)
(* main (tricks.py 177-195), after parse_args                              *)
(***************************************************************************)
\* lines 182-186: args.name if args.name else f"Mixed playlist {...}"
DefaultName(d) == <<"Mixed playlist ">> \o strftime(d)
NameOf(a, d) == IF a.name # None /\ a.name[1] # <<>> THEN a.name[1] ELSE DefaultName(d)

main_dispatch ==
    /\ pc = "main"
    /\ IF args[1].command = "merge"
       THEN /\ new_name' = NameOf(args[1], today[1])
            /\ src1_id' = args[1].src1
            /\ src2_id' = args[1].src2
            /\ per_src_limit' = args[1].per_src_limit
            /\ pc' = "mp_user"
            /\ UNCHANGED playlist_id
       ELSE /\ playlist_id' = args[1].playlist
            /\ pc' = "pt_fetch"
            /\ UNCHANGED mp_args
    /\ UNCHANGED <<svc, stdout, err, ret, cli, limit, uris, results, idx, caller,
                   mp_vars, artist_name>>

(***************************************************************************)
(* Enumerated playlists of track URIs.                                     *)
(***************************************************************************)
Uris == {"u1", "u2"}
UriItems == {Item(None)} \cup {Item(Some(Track(u, "X", <<"Y">>))) : u \in Uris}
Limits == {None} \cup {Some(l) : l \in -1..MaxLimit}

\* Before the run: nothing called, printed, raised or returned.
FreshRun ==
    /\ created = <<>> /\ calls = <<>> /\ stdout = <<>>
    /\ err = None /\ ret = None

cli_unset == args = None /\ today = None
ga_unset  == playlist_id = None /\ limit = None /\ uris = <<>> /\ results = None /\ idx = 0
mp_unset  ==
    /\ src1_id = None /\ src2_id = None /\ new_name = None /\ per_src_limit = None
    /\ user_id = None /\ tracks1 = <<>> /\ tracks2 = <<>> /\ merged = <<>>
    /\ new_pl = None /\ i = 0
pt_unset  == artist_name = None

\* A call get_all_track_uris("p1", limit) on an enumerated playlist.
InitPaginate ==
    /\ remote \in [{"p1"} -> PlaylistsOver(UriItems)]
    /\ account = "alice"
    /\ FreshRun /\ cli_unset /\ mp_unset /\ pt_unset
    /\ entry = "get_all_track_uris"
    /\ playlist_id = "p1" /\ limit \in Limits /\ uris = <<>> /\ results = None /\ idx = 0
    /\ caller = "top"
    /\ pc = "ga_fetch"

NextPaginate ==
    \/ get_all_track_uris_fetch
    \/ get_all_track_uris_while
    \/ get_all_track_uris_for
    \/ get_all_track_uris_after
    \/ get_all_track_uris_return
    \/ sp_raises

SpecPaginate == InitPaginate /\ [][NextPaginate]_vars

(***************************************************************************)
(* Long playlists, for merge_playlists: n tracks with the URIs <<id, 1>>,  *)
(* ..., <<id, n>>, cut into pages of `size` items; with `holes`, a removed *)
(* track follows every tenth track.                                        *)
(***************************************************************************)
BigTracks == 150   \* tracks of the longest playlist

LongItems(id, n, holes) ==
    IF holes
    THEN [q \in 1..(n + n \div 10) |->
            IF q % 11 = 0 THEN Item(None)
            ELSE Item(Some(Track(<<id, q - q \div 11>>, "X", <<"Y">>)))]
    ELSE [q \in 1..n |-> Item(Some(Track(<<id, q>>, "X", <<"Y">>)))]

RECURSIVE Chunks(_, _)
Chunks(s, size) ==
    IF Len(s) <= size THEN <<s>>
    ELSE <<SubSeq(s, 1, size)>> \o Chunks(SubSeq(s, size + 1, Len(s)), size)

TrackCounts == {0, 1, 3, 50, BatchSize - 1, BatchSize, BatchSize + 1, BigTracks}
MergeLimits == {-1, 0, 1, 50, BatchSize, 2 * BatchSize}
Accounts    == {"alice", "bob"}

\* A call merge_playlists(src1_id, src2_id, "mix", per_src_limit).
InitMerge ==
    /\ \E n1, n2 \in TrackCounts :
          remote = [id \in {"p1", "p2"} |->
                      IF id = "p1" THEN Chunks(LongItems(id, n1, TRUE), BatchSize)
                                   ELSE Chunks(LongItems(id, n2, FALSE), 40)]
    /\ account \in Accounts
    /\ FreshRun /\ cli_unset /\ ga_unset /\ pt_unset
    /\ entry = "merge_playlists"
    /\ caller = "top"
    /\ \E srcs \in {<<"p1", "p2">>, <<"p2", "p1">>, <<"p1", "p1">>} :
          src1_id = srcs[1] /\ src2_id = srcs[2]
    /\ new_name = Str("mix")
    /\ per_src_limit \in MergeLimits
    /\ user_id = None /\ tracks1 = <<>> /\ tracks2 = <<>> /\ merged = <<>>
    /\ new_pl = None /\ i = 0
    /\ pc = "mp_user"

NextMerge ==
    \/ merge_playlists_user
    \/ get_all_track_uris_fetch
    \/ get_all_track_uris_while
    \/ get_all_track_uris_for
    \/ get_all_track_uris_after
    \/ merge_playlists_tracks1
    \/ merge_playlists_tracks2
    \/ merge_playlists_create
    \/ merge_playlists_batch
    \/ merge_playlists_print
    \/ sp_raises

SpecMerge == InitMerge /\ [][NextMerge]_vars

(***************************************************************************)
(* Enumerated playlists of titled tracks, for print_titles.                *)
(***************************************************************************)
TitleItems ==
    {Item(None),
     Item(Some(Track("u1", "X", <<"Y">>))),
     Item(Some(Track("u2", "Z", <<>>))),
     Item(Some(Track("u3", "Q", <<"W", "Y">>)))}

\* A call print_titles("p1") on an enumerated playlist.
InitTitles ==
    /\ remote \in [{"p1"} -> PlaylistsOver(TitleItems)]
    /\ account = "alice"
    /\ FreshRun /\ cli_unset /\ mp_unset /\ pt_unset
    /\ entry = "print_titles"
    /\ playlist_id = "p1" /\ limit = None /\ uris = <<>> /\ results = None /\ idx = 0
    /\ caller = "top"
    /\ pc = "pt_fetch"

NextTitles ==
    \/ print_titles_fetch
    \/ print_titles_for
    \/ print_titles_after
    \/ sp_raises

SpecTitles == InitTitles /\ [][NextTitles]_vars

(***************************************************************************)
(* The command line: main on a small library.                              *)
(***************************************************************************)
Library ==
    [id \in {"p1", "p2"} |->
        IF id = "p1"
        THEN << <<Item(Some(Track("u1", "X", <<"Y">>))), Item(None)>>,
                <<Item(Some(Track("u2", "Z", <<>>)))>> >>
        ELSE << <<Item(Some(Track("u3", "Z", <<>>))),
                  Item(Some(Track("u4", "Q", <<"W", "Y">>)))>> >>]

Dates == {[year |-> 2026, month |-> 11, day |-> 1], [year |-> 2025, month |-> 2, day |-> 28]}

MergeArgs ==
    [command : {"merge"}, src1 : DOMAIN Library, src2 : DOMAIN Library,
     name : {None, Some(Str("")), Some(Str("My mix"))},
     per_src_limit : {1, BatchSize}]
TitlesArgs == [command : {"titles"}, playlist : DOMAIN Library]

InitMain ==
    /\ remote = Library
    /\ account \in Accounts
    /\ FreshRun /\ ga_unset /\ mp_unset /\ pt_unset
    /\ entry = "main"
    /\ caller = "top"
    /\ args \in {Some(a) : a \in MergeArgs \cup TitlesArgs}
    /\ today \in {Some(d) : d \in Dates}
    /\ pc = "main"

Next ==
    \/ main_dispatch
    \/ merge_playlists_user
    \/ get_all_track_uris_fetch
    \/ get_all_track_uris_while
    \/ get_all_track_uris_for
    \/ get_all_track_uris_after
    \/ merge_playlists_tracks1
    \/ merge_playlists_tracks2
    \/ merge_playlists_create
    \/ merge_playlists_batch
    \/ merge_playlists_print
    \/ print_titles_fetch
    \/ print_titles_for
    \/ print_titles_after
    \/ sp_raises

Spec == InitMain /\ [][Next]_vars

(***************************************************************************)
(* The properties.                                                         *)
(***************************************************************************)
HasTrack(item) == item.track # None

\* The tracks of the items that have one, in order, and their URIs.
TracksOf(items) ==
    LET with == SelectSeq(items, HasTrack) IN [k \in 1..Len(with) |-> with[k].track[1]]
UrisOf(items) ==
    LET tr == TracksOf(items) IN [k \in 1..Len(tr) |-> tr[k].uri]

Take(s, n) == SubSeq(s, 1, n)

IsPageRead(c) == c.op \in {"playlist_tracks", "next"}
IsAdd(c)      == c.op = "playlist_add_items"
IsCreate(c)   == c.op = "user_playlist_create"
IsFirstRead(c) == c.op = "playlist_tracks"

\* C1: get_all_track_uris returns the first min(N, L) URIs of the items that
\* have a track, in source order, when a limit L >= 0 is given, and all N of
\* them when no limit is given; items without a track are skipped and do not
\* count.
C1_FirstMinInOrder ==
    (entry = "get_all_track_uris" /\ pc = "done" /\ (limit = None \/ limit[1] >= 0)) =>
        LET all == UrisOf(Flatten(remote[playlist_id])) IN
        ret = Some(IF limit = None THEN all ELSE Take(all, Min(Len(all), limit[1])))

\* C1, its case: a removed track first, two tracks on two or more pages, limit 1.
C1_Witness ==
    /\ entry = "get_all_track_uris" /\ pc = "done"
    /\ limit = Some(1)
    /\ Len(remote[playlist_id]) >= 2
    /\ Flatten(remote[playlist_id])[1].track = None
    /\ Len(UrisOf(Flatten(remote[playlist_id]))) = 2
    /\ Len(ret[1]) = 1

Concat(ss) ==
    LET RECURSIVE F(_)
        F(k) == IF k > Len(ss) THEN <<>> ELSE ss[k] \o F(k + 1)
    IN F(1)

\* the batches of the playlist_add_items calls, in call order
AddedBatches == LET adds == SelectSeq(calls, IsAdd) IN [k \in 1..Len(adds) |-> adds[k].arg[2]]

\* C3: a merge in which no call fails makes ceil(M/100) playlist_add_items
\* calls for M merged references, each with 1 to 100 references, the last with
\* M mod 100 (100 when M is a positive multiple of 100), and the batches in
\* call order make up merged: nothing dropped, duplicated or reordered.
C3_BatchWrite ==
    (entry = "merge_playlists" /\ pc = "done") =>
        LET M == Len(merged)
            b == AddedBatches IN
        /\ Len(b) = (M + 99) \div 100
        /\ \A k \in 1..Len(b) : Len(b[k]) >= 1 /\ Len(b[k]) <= 100
        /\ M > 0 => Len(b[Len(b)]) = (IF M % 100 = 0 THEN 100 ELSE M % 100)
        /\ Concat(b) = merged
        /\ created[1].items = merged

\* C3, its case: 200 merged references written in two full batches.
C3_Witness ==
    /\ entry = "merge_playlists" /\ pc = "done"
    /\ Len(merged) = 200
    /\ Len(AddedBatches) = 2
    /\ Len(AddedBatches[2]) = 100

\* C4, as claimed: a successful merge returns the pair (id of the new
\* playlist, number of references written).
C4_ReturnsPair ==
    (entry = "merge_playlists" /\ pc = "done") => ret = Some(<<new_pl.id, Len(merged)>>)

\* C4, amended: a successful merge returns None; it prints one line,
\* "created playlist '<new_name>' with <count> tracks.", count being the
\* number of references written, and the id of the new playlist is not in it.
C4_PrintsNameAndCount ==
    (entry = "merge_playlists" /\ pc = "done") =>
        /\ ret = Some(None)
        /\ stdout = << <<"created playlist '">> \o new_name \o <<"' with ">>
                       \o Dec(Len(created[1].items)) \o <<" tracks.">> >>
        /\ \A k \in 1..Len(stdout[1]) : stdout[1][k] # created[1].id

\* C4, its case: a merge of 51 references has returned.
C4_Witness ==
    /\ entry = "merge_playlists" /\ pc = "done"
    /\ Len(created[1].items) = 51
    /\ ret = Some(None)
    /\ Len(stdout) = 1

\* C5: print_titles, when no call fails, ends having printed one line per
\* item that has a track, in order, whatever the artists of the tracks, also
\* when the first track lists no artist.
C5_OneLinePerTrack ==
    (entry = "print_titles" /\ pc \in {"done", "raised"} /\ err # Some("SpotifyException")) =>
        LET tr == TracksOf(Flatten(remote[playlist_id])) IN
        /\ Len(stdout) = Len(tr)
        /\ \A k \in 1..Len(tr) : stdout[k][1] = tr[k].name

\* The line print_titles is to print for the k-th track of tr: the first
\* artist of the track, or of the nearest track before it that lists one.
HasArtistUpTo(tr, k) == {j \in 1..k : tr[j].artists # <<>>}
StickyArtist(tr, k) ==
    LET last == CHOOSE j \in HasArtistUpTo(tr, k) : \A q \in HasArtistUpTo(tr, k) : q <= j
    IN tr[last].artists[1]

\* C6: the line of a track with an artist shows its first artist; the line of
\* a track without artists shows the first artist of the nearest track before
\* it that has one, across pages and removed tracks.
C6_ArtistSticks ==
    entry = "print_titles" =>
        LET tr == TracksOf(Flatten(remote[playlist_id])) IN
        /\ Len(stdout) <= Len(tr)
        /\ \A k \in 1..Len(stdout) :
              /\ HasArtistUpTo(tr, k) # {}
              /\ stdout[k] = <<tr[k].name, " - ", StickyArtist(tr, k)>>

\* C6, its case: the artist comes from the page before, past a removed track.
C6_Witness ==
    /\ entry = "print_titles" /\ pc = "done"
    /\ Len(remote[playlist_id]) = 2
    /\ Len(remote[playlist_id][1]) = 1
    /\ Flatten(remote[playlist_id])
         = <<Item(Some(Track("u3", "Q", <<"W", "Y">>))), Item(None),
             Item(Some(Track("u2", "Z", <<>>)))>>
    /\ stdout = << <<"Q", " - ", "W">>, <<"Z", " - ", "W">> >>

\* C7: merge names the new playlist "Mixed playlist YYYY-MM-DD" when --name
\* is omitted and with the value of --name, unchanged, whenever it is
\* supplied, the empty string included.
C7_NameAsSupplied ==
    (entry = "main" /\ pc # "main" /\ args[1].command = "merge") =>
        LET d == today[1]
            wanted == IF args[1].name = None
                      THEN <<"Mixed playlist ">> \o Pad(d.year, 4) \o <<"-">>
                           \o Pad(d.month, 2) \o <<"-">> \o Pad(d.day, 2)
                      ELSE args[1].name[1] IN
        /\ new_name = wanted
        /\ \A k \in 1..Len(created) : created[k].name = wanted

\* A step of get_all_track_uris that requests a page / appends a reference.
Requests(ops) ==
    /\ Len(calls') = Len(calls) + 1
    /\ calls'[Len(calls')].op \in ops
Appends == Len(uris') > Len(uris)

\* Without a limit: one request per page, page after page, up to the page
\* without a cursor.
C8_NoLimit ==
    (entry = "get_all_track_uris" /\ limit = None) =>
        /\ Len(calls) <= Len(remote[playlist_id])
        /\ \A k \in 1..Len(calls) :
              IF k = 1 THEN calls[k].op = "playlist_tracks"
              ELSE calls[k].op = "next" /\ calls[k].arg[1].page = k
        /\ pc = "done" => Len(calls) = Len(remote[playlist_id])

\* C8, as claimed: with a limit, no page request (the first fetch or a next
\* page) at a count >= limit and no append at a count >= limit; without a
\* limit, one request per page up to the page without a cursor.
C8_NoRequestAtLimit ==
    /\ [][limit # None =>
            /\ Requests({"playlist_tracks", "next"}) => Len(uris') < limit[1]
            /\ Appends => Len(uris) < limit[1]]_vars
    /\ []C8_NoLimit

\* C8, amended: the first fetch is made whatever the limit (also a limit
\* <= 0); with a limit, no next-page request at a count >= limit and no
\* append at a count >= limit; without a limit, one request per page up to
\* the page without a cursor.
C8_NoNextAtLimit ==
    /\ [][limit # None =>
            /\ Requests({"next"}) => Len(uris') < limit[1]
            /\ Appends => Len(uris) < limit[1]]_vars
    /\ [][pc = "ga_fetch" /\ pc' # "ga_fetch" => Requests({"playlist_tracks"})]_vars
    /\ []C8_NoLimit

\* C8, its case: the limit is reached at the end of a page that has a cursor,
\* and the function has returned after the one request.
C8_Witness ==
    /\ entry = "get_all_track_uris" /\ pc = "done"
    /\ limit = Some(1)
    /\ results # None /\ results[1].next # None
    /\ idx = Len(results[1].items)
    /\ ret = Some(uris) /\ Len(uris) = 1
    /\ Len(calls) = 1

\* what get_all_track_uris(id, limit = per_src_limit) is to return
Collected(id) ==
    LET all == UrisOf(Flatten(remote[id])) IN Take(all, Min(Len(all), Max(per_src_limit, 0)))

Rank(c) ==
    CASE c.op = "current_user" -> 0
      [] IsPageRead(c) -> 1
      [] IsCreate(c) -> 2
      [] IsAdd(c) -> 3

\* C9: merge_playlists calls current_user, then reads playlist 1, then
\* playlist 2, then creates the playlist, then adds the batches.  The
\* playlist is created at most once, after both reads are complete, for the
\* resolved user, named new_name, not public; every batch goes to the id the
\* creation returned, never to a source; and a failure before the creation
\* leaves no playlist.
C9_CallOrder ==
    entry = "merge_playlists" =>
        LET n == Len(calls)
            firsts == SelectSeq(calls, IsFirstRead) IN
        /\ \A k \in 1..(n - 1) : Rank(calls[k]) <= Rank(calls[k + 1])
        /\ \A k \in 1..n : (calls[k].op = "current_user") <=> (k = 1)
        /\ Len(firsts) <= 2
        /\ Len(firsts) >= 1 => firsts[1].arg = <<src1_id>>
        /\ Len(firsts) >= 2 => firsts[2].arg = <<src2_id>>
        /\ \A k \in 2..n : calls[k].op = "next" =>
              /\ IsPageRead(calls[k - 1]) /\ calls[k - 1].ok
              /\ calls[k].arg[1].id = (IF Len(SelectSeq(Take(calls, k), IsFirstRead)) = 1
                                       THEN src1_id ELSE src2_id)
        /\ Len(SelectSeq(calls, IsCreate)) <= 1
        /\ \A k \in 1..n : IsCreate(calls[k]) =>
              /\ calls[k].arg = <<account, new_name, FALSE>>
              /\ Len(SelectSeq(Take(calls, k), IsFirstRead)) = 2
              /\ \A j \in 1..(k - 1) : calls[j].ok
              /\ tracks1 = Collected(src1_id)
              /\ tracks2 = Collected(src2_id)
        /\ \A k \in 1..n : IsAdd(calls[k]) =>
              /\ Len(created) = 1
              /\ calls[k].arg[1] = created[1].id
              /\ calls[k].arg[1] \notin {src1_id, src2_id}
        /\ Len(created) <= 1
        /\ created # <<>> =>
              /\ \E k \in 1..n : IsCreate(calls[k]) /\ calls[k].ok
              /\ created[1].owner = account
              /\ created[1].name = new_name
              /\ created[1].public = FALSE
        /\ (pc = "raised" /\ Rank(calls[n]) <= 1) => created = <<>>

\* C9, its case: a finished merge of two different playlists, each read in
\* more than one page, written in more than one batch.
C9_Witness ==
    /\ entry = "merge_playlists" /\ pc = "done"
    /\ src1_id # src2_id
    /\ Len(calls) >= 9
    /\ \E k \in 3..Len(calls) :
          /\ calls[k].op = "playlist_tracks"
          /\ calls[k - 1].op = "next" /\ calls[k + 1].op = "next"
    /\ Len(AddedBatches) >= 2

\* C10: when the k-th playlist_add_items call fails the run ends with that
\* error: no call follows it, no summary line is printed, and the new
\* playlist holds the first (k-1)*100 references of merged, in order.
C10_PartialWrite ==
    entry = "merge_playlists" =>
        /\ \A k \in 1..Len(calls) : ~calls[k].ok => (k = Len(calls) /\ pc = "raised")
        /\ (pc = "raised" /\ IsAdd(calls[Len(calls)])) =>
              LET k == Len(AddedBatches) IN
              /\ err # None /\ ret = None
              /\ stdout = <<>>
              /\ (k - 1) * 100 < Len(merged)
              /\ Len(created) = 1
              /\ created[1].items = Take(merged, (k - 1) * 100)

\* C10, its case: the third batch fails after two batches were written.
C10_Witness ==
    /\ entry = "merge_playlists" /\ pc = "raised"
    /\ IsAdd(calls[Len(calls)])
    /\ Len(AddedBatches) = 3
    /\ Len(created[1].items) = 200
    /\ Len(merged) > 200

====
